---------------------------- MODULE Spec2Model ----------------------------
(***************************************************************************)
(* file_path_from_id: resolving a path from a file identifier.             *)
(*                                                                         *)
(* The model covers the three resolvers of the repository                  *)
(*   "windows"  src/src/windows.rs  (path_from_id, path_from_file)         *)
(*   "lib"      src/src/lib.rs      (the older Windows path_from_id)       *)
(*   "unix"     src/src/unix.rs     (path_from_id)                         *)
(* One behaviour is one invocation: Init fixes the mounted volumes, an     *)
(* entry action takes the caller's input, and every later action is one    *)
(* OS call of the invocation together with the code that follows it up to  *)
(* the next OS call.  The operating system is the environment: every OS    *)
(* call may fail, and otherwise answers from the world (volumes, files).   *)
(* The log oscalls keeps every OS call with its argument and the OS's      *)
(* answer.                                                                 *)
(*                                                                         *)
(* Spec is the three resolvers on the worlds of Init.  SpecParse is the    *)
(* Unix resolver over every text the utility may write; FairSpec is Spec   *)
(* with every step that can be taken eventually taken.                     *)
(*                                                                         *)
(* The buffers the OS writes (windows.rs lines 32, 142, 198) are bound     *)
(* without `mut` and handed over as raw pointers; the model reads back     *)
(* what the OS wrote, which is what the loads at lines 56 and 220 of a     *)
(* build observe, the pointer having escaped to a foreign function.        *)
(***************************************************************************)
EXTENDS Integers, Naturals, Sequences, FiniteSets, TLC

(***************************************************************************)
(* Bounds.  MAX_PATH is the capacity, in 16-bit code units, of every       *)
(* buffer of windows.rs (260 in windows_sys), scaled down.                 *)
(***************************************************************************)
MAX_PATH == 6
MaxVolumes == 2
MaxMounts == 2
MaxSerial == 2

Serials == 1 .. MaxSerial

NoIo == [repr |-> "none", code |-> "none", kind |-> "none", required |-> 0, available |-> 0]

(***************************************************************************)
(* Sequence helpers.                                                       *)
(***************************************************************************)
Zeros(n) == [i \in 1 .. n |-> 0]

Fill(n, u) == [i \in 1 .. n |-> u]

\* slice.into_iter().take(n)
Take(s, n) == [i \in 1 .. (IF n < Len(s) THEN n ELSE Len(s)) |-> s[i]]

RECURSIVE Flatten(_)
Flatten(ss) == IF ss = <<>> THEN <<>> ELSE Head(ss) \o Flatten(Tail(ss))

(***************************************************************************)
(* UTF-16.  String::from_utf16 (windows.rs line 57): a unit in             *)
(* D800..DBFF must be followed by one in DC00..DFFF, and the pair is one   *)
(* scalar value; a unit in DC00..DFFF on its own is an error.              *)
(***************************************************************************)
IsHighSurrogate(u) == u >= 55296 /\ u <= 56319

IsLowSurrogate(u) == u >= 56320 /\ u <= 57343

RECURSIVE ValidUtf16(_)
ValidUtf16(s) ==
    IF s = <<>> THEN TRUE
    ELSE IF IsHighSurrogate(s[1])
         THEN Len(s) >= 2 /\ IsLowSurrogate(s[2]) /\ ValidUtf16(Tail(Tail(s)))
    ELSE IF IsLowSurrogate(s[1]) THEN FALSE
    ELSE ValidUtf16(Tail(s))

RECURSIVE DecodeUtf16(_)
DecodeUtf16(s) ==
    IF s = <<>> THEN <<>>
    ELSE IF IsHighSurrogate(s[1])
         THEN <<65536 + (s[1] - 55296) * 1024 + (s[2] - 56320)>>
                  \o DecodeUtf16(Tail(Tail(s)))
    ELSE <<s[1]>> \o DecodeUtf16(Tail(s))

\* OsStr::encode_wide of a decoded path: what fs::canonicalize's result is
\* compared with (windows.rs line 326).
RECURSIVE EncodeUtf16(_)
EncodeUtf16(cs) ==
    IF cs = <<>> THEN <<>>
    ELSE (IF cs[1] >= 65536
          THEN <<55296 + ((cs[1] - 65536) \div 1024), 56320 + ((cs[1] - 65536) % 1024)>>
          ELSE <<cs[1]>>) \o EncodeUtf16(Tail(cs))

(***************************************************************************)
(* Results.  One shape for every outcome: tag is "Ok", "Err" or "Panic".   *)
(***************************************************************************)
NoResult == [tag |-> "none", variant |-> "none", io |-> NoIo, path |-> <<>>]

Ok(p) == [tag |-> "Ok", variant |-> "none", io |-> NoIo, path |-> p]

Panic == [tag |-> "Panic", variant |-> "todo!()", io |-> NoIo, path |-> <<>>]

\* io::Error::last_os_error()
LastOsError(code) == [NoIo EXCEPT !.repr = "Os", !.code = code]

\* io::Error::new(kind, message)
IoNew(kind) == [NoIo EXCEPT !.repr = "Custom", !.kind = kind]

\* The Error enum of windows.rs (lines 296-305) and of unix.rs (48-54);
\* lib.rs returns the bare io::Error.
Err(r, variant, io) ==
    [tag |-> "Err", variant |-> (IF r = "lib" THEN "io::Error" ELSE variant),
     io |-> io, path |-> <<>>]


\* io::Error::new(OutOfMemory, "path buffer requires {size} bytes but only
\* {MAX_PATH} were allocated") (windows.rs lines 51-54)
CapacityIo(size) ==
    [NoIo EXCEPT !.repr = "Custom", !.kind = "OutOfMemory",
                 !.required = size, !.available = MAX_PATH]

(***************************************************************************)
(* Identifiers (file_id::FileId).  The 128-bit file id, the file index and *)
(* the device/inode pair are opaque to the resolvers, which only copy them *)
(* into an OS call; one value of each is enough.                           *)
(***************************************************************************)
HighRes(sn) == [kind |-> "HighRes", volume_serial_number |-> sn, file_id |-> "fid"]

LowRes(sn) == [kind |-> "LowRes", volume_serial_number |-> sn, file_index |-> "idx"]

Inode == [kind |-> "Inode", device_id |-> "dev", inode_number |-> "ino"]

NoId == [kind |-> "none"]

(***************************************************************************)
(* The world: the mounted volumes in the order FindFirstVolumeW and        *)
(* FindNextVolumeW report them, each with its serial number and the mount  *)
(* paths GetVolumePathNamesForVolumeNameW lists for it, in order.          *)
(***************************************************************************)
\* Mount path j of volume v: j code units, so that names of several lengths
\* go through the list parser.
MountName(v, j) == Fill(j, 10 * v + j)

Worlds ==
    UNION { [1 .. n -> [sn : Serials, nmounts : 0 .. MaxMounts]] : n \in 1 .. MaxVolumes }

\* File paths as the OS holds them: UTF-16 code units.  A plain name, a
\* surrogate pair, an unpaired surrogate, the longest path that fits the
\* buffer with its terminator, and the shortest that does not.
Paths ==
    { <<97>>, <<55357, 56832>>, <<97, 55357>>, Fill(MAX_PATH - 1, 98), Fill(MAX_PATH, 99) }

VARIABLES
    volumes,     \* the world
    pc,          \* position of the invocation
    entry,       \* "path_from_id" | "path_from_file"
    resolver,    \* "windows" | "lib" | "unix"
    id,          \* the FileId argument
    home,        \* index of the volume holding the live file the id was
                 \* captured from; 0 when that file has been deleted
    vi,          \* the volume whose name FindFirst/NextVolumeW last wrote
    names,       \* volume_path_names of the current volume
    ni,          \* position of the for loop in names
    matched,     \* volume_path_name, the result of the enumeration
    searchOpen,  \* open FindFirstVolumeW search handles
    volHandles,  \* open handles obtained from CreateFileW
    fileOpen,    \* open handles obtained from OpenFileById
    callerOpen,  \* the caller's own handle (path_from_file) is open
    opened,      \* the file behind the handle the final-path step queries
    result,      \* what the invocation returned
    oscalls,     \* the OS calls of the invocation, in order
    cause,       \* why the invocation ended
    output       \* output.stdout, what the utility wrote (unix.rs)

vars ==
    <<volumes, pc, entry, resolver, id, home, vi, names, ni, matched, searchOpen,
      volHandles, fileOpen, callerOpen, opened, result, oscalls, cause, output>>

NoOpened == [who |-> "none", path |-> <<>>]

Init ==
    /\ volumes \in Worlds
    /\ pc = "idle"
    /\ entry = "none"
    /\ resolver = "none"
    /\ id = NoId
    /\ home = 0
    /\ vi = 0
    /\ names = <<>>
    /\ ni = 0
    /\ matched = <<>>
    /\ searchOpen = 0
    /\ volHandles = 0
    /\ fileOpen = 0
    /\ callerOpen = FALSE
    /\ opened = NoOpened
    /\ result = NoResult
    /\ oscalls = <<>>
    /\ cause = "none"
    /\ output = <<>>

\* return: the frame is left; an fs::File it owns is dropped, which closes
\* its handle.  Raw HANDLE values are plain integers and are not closed.
Return(res, why) ==
    /\ pc' = "done"
    /\ result' = res
    /\ cause' = why

\* An OS call made, with its argument and how the OS answered it: "ok" or
\* the error code GetLastError reports.
Log(call, arg, outcome) == oscalls' = Append(oscalls, <<call, arg, outcome>>)

(***************************************************************************)
(* The operating system.                                                   *)
(***************************************************************************)
\* GetVolumePathNamesForVolumeNameW: the mount paths of volume v, each
\* terminated by a NUL, and one more NUL ending the list.
OsVolumePathNames(v) ==
    Flatten([j \in 1 .. volumes[v].nmounts |-> MountName(v, j) \o <<0>>]) \o <<0>>

\* A NUL-terminated string read through a pointer: the units before the
\* first NUL.  lib.rs hands over names without a terminator (line 174
\* pushes none); the read then runs past the vector, and the model takes
\* the outcome in which it stops right there, the call's failure being the
\* other.
RECURSIVE CStr(_)
CStr(s) == IF s = <<>> \/ s[1] = 0 THEN <<>> ELSE <<s[1]>> \o CStr(Tail(s))

\* The volume CreateFileW opens for a mount path.
VolumeOfMount(name) ==
    CHOOSE v \in 1 .. Len(volumes) :
        \E j \in 1 .. volumes[v].nmounts : MountName(v, j) = CStr(name)

\* GetFinalPathNameByHandleW into a buffer of MAX_PATH units: the length
\* without the terminator when path and terminator fit, and otherwise the
\* size required, terminator included, the buffer left as it was.
OsFinalPathName(p) ==
    IF Len(p) + 1 <= MAX_PATH
    THEN [size |-> Len(p), buf |-> p \o Zeros(MAX_PATH - Len(p))]
    ELSE [size |-> Len(p) + 1, buf |-> Zeros(MAX_PATH)]

\* ... or 0 when the call fails.
OsFinalPathNameFailed == [size |-> 0, buf |-> Zeros(MAX_PATH)]

(***************************************************************************)
(* Pure code of the resolvers.                                             *)
(***************************************************************************)
\* windows.rs, file_handle_from_id: the match over the identifier.
file_handle_from_id_match(i) ==
    IF i.kind = "HighRes" THEN "resolve"
    ELSE IF i.kind = "LowRes" THEN "todo!()"
    ELSE "InvalidFileId"

\* lib.rs, file_handle_from_id: the match over the identifier.
lib_file_handle_from_id_match(i) ==
    IF i.kind = "HighRes" THEN "resolve" ELSE "todo!()"

\* unix.rs, path_from_id: the match over the identifier.
unix_path_from_id_match(i) ==
    IF i.kind = "Inode" THEN "resolve" ELSE "InvalidFileId"

\* get_volume_path_names, the loop of lines 216-234 over the buffer the OS
\* filled; lib.rs (167-184) is the same without the terminating NUL.
RECURSIVE get_volume_path_names_loop(_, _, _, _, _, _)
get_volume_path_names_loop(r, volume_paths, volume_paths_size, idx, volume_path, acc) ==
    IF ~(idx < volume_paths_size) THEN acc
    ELSE LET c == volume_paths[idx + 1] IN
         IF c = 0
         THEN IF Len(volume_path) > 0
              THEN get_volume_path_names_loop(r, volume_paths, volume_paths_size, idx + 1, <<>>,
                       Append(acc, IF r = "lib" THEN volume_path ELSE Append(volume_path, 0)))
              ELSE get_volume_path_names_loop(r, volume_paths, volume_paths_size, idx + 1,
                       volume_path, acc)
         ELSE get_volume_path_names_loop(r, volume_paths, volume_paths_size, idx + 1,
                  Append(volume_path, c), acc)

get_volume_path_names(r, volume_paths, volume_paths_size) ==
    get_volume_path_names_loop(r, volume_paths, volume_paths_size, 0, <<>>, <<>>)

\* path_from_handle taking the reported size to count a terminator.
path_from_handle_truncating(r, path, size) ==
    IF size = 0
    THEN Err(r, "FinalPathName", LastOsError("ERROR_GEN_FAILURE"))
    ELSE IF size > MAX_PATH
    THEN Err(r, "FinalPathName", CapacityIo(size))
    ELSE LET units == Take(path, size - 1) IN
         IF ~ValidUtf16(units)
         THEN Err(r, "FinalPathName", IoNew("InvalidData"))
         ELSE Ok(DecodeUtf16(units))

\* path_from_handle, lines 42-65, on what GetFinalPathNameByHandleW
\* returned and wrote.
path_from_handle(r, path, size) ==
    IF size = 0
    THEN Err(r, "FinalPathName", LastOsError("ERROR_GEN_FAILURE"))
    ELSE IF size > MAX_PATH
    THEN Err(r, "FinalPathName", CapacityIo(size))
    ELSE LET units == Take(path, size) IN
         IF ~ValidUtf16(units)
         THEN Err(r, "FinalPathName", IoNew("InvalidData"))
         ELSE Ok(DecodeUtf16(units))

path_from_handle_cause(path, size) ==
    IF size = 0 THEN "GetFinalPathNameByHandleW"
    ELSE IF size > MAX_PATH THEN "capacity"
    ELSE IF ~ValidUtf16(Take(path, size)) THEN "decode"
    ELSE "ok"

(***************************************************************************)
(* Entry points.                                                           *)
(***************************************************************************)
callVars == <<entry, resolver, id, home>>

enumVars == <<vi, names, ni, matched>>

handleVars == <<searchOpen, volHandles, fileOpen, callerOpen>>

\* The identifiers a caller can hold for world w, with the volume of the
\* live file each was captured from (0: the file is gone).
HighResInputs ==
    { <<HighRes(volumes[h].sn), h>> : h \in 1 .. Len(volumes) }
        \cup { <<HighRes(sn), 0>> : sn \in Serials }

OtherInputs(kinds) ==
    { <<i, 0>> : i \in { x \in {LowRes(1), Inode, HighRes(1)} : x.kind \in kinds } }

\* windows.rs path_from_id (13-16) up to the first OS call of
\* file_handle_from_id (81-131).
path_from_id ==
    /\ pc = "idle"
    /\ \E in \in HighResInputs \cup OtherInputs({"LowRes", "Inode"}) :
        /\ entry' = "path_from_id"
        /\ resolver' = "windows"
        /\ id' = in[1]
        /\ home' = in[2]
        /\ CASE file_handle_from_id_match(in[1]) = "resolve" ->
                  /\ pc' = "FindFirstVolumeW"
                  /\ UNCHANGED <<result, cause>>
             [] file_handle_from_id_match(in[1]) = "todo!()" ->
                  Return(Panic, "todo!()")
             [] OTHER ->
                  Return(Err("windows", "InvalidFileId", NoIo), "InvalidFileId")
    /\ UNCHANGED <<volumes, output, enumVars, handleVars, opened, oscalls>>

\* lib.rs path_from_id (12-15) up to the first OS call of
\* file_handle_from_id (65-99).
lib_path_from_id ==
    /\ pc = "idle"
    /\ \E in \in HighResInputs \cup OtherInputs({"LowRes", "Inode"}) :
        /\ entry' = "path_from_id"
        /\ resolver' = "lib"
        /\ id' = in[1]
        /\ home' = in[2]
        /\ IF lib_file_handle_from_id_match(in[1]) = "resolve"
           THEN /\ pc' = "FindFirstVolumeW"
                /\ UNCHANGED <<result, cause>>
           ELSE Return(Panic, "todo!()")
    /\ UNCHANGED <<volumes, output, enumVars, handleVars, opened, oscalls>>

\* path_from_file built on the identifier lookup: it reads the handle's
\* identifier and resolves that.
path_from_file_by_id ==
    /\ pc = "idle"
    /\ \E h \in 1 .. Len(volumes) :
        /\ entry' = "path_from_file"
        /\ resolver' = "windows"
        /\ id' = HighRes(volumes[h].sn)
        /\ home' = h
        /\ callerOpen' = TRUE
        /\ pc' = "FindFirstVolumeW"
    /\ UNCHANGED <<volumes, output, enumVars, searchOpen, volHandles, fileOpen, opened,
                   result, oscalls, cause>>

\* windows.rs path_from_file (19-21): the caller's open handle to a file.
path_from_file ==
    /\ pc = "idle"
    /\ \E p \in Paths :
        /\ entry' = "path_from_file"
        /\ resolver' = "windows"
        /\ callerOpen' = TRUE
        /\ opened' = [who |-> "home", path |-> p]
        /\ pc' = "GetFinalPathNameByHandleW"
    /\ UNCHANGED <<volumes, output, id, home, enumVars, searchOpen, volHandles, fileOpen,
                   result, oscalls, cause>>

(***************************************************************************)
(* get_volume_path_name_from_serial_number (windows.rs 136-188, lib.rs     *)
(* 103-145).                                                               *)
(***************************************************************************)
\* Lines 143-151.
FindFirstVolumeW ==
    /\ pc = "FindFirstVolumeW"
    /\ \/ /\ Log("FindFirstVolumeW", <<>>, "ERROR_GEN_FAILURE")
          /\ Return(Err(resolver, "FindVolume", LastOsError("ERROR_GEN_FAILURE")),
                    "FindFirstVolumeW")
          /\ UNCHANGED <<vi, searchOpen>>
       \/ /\ Log("FindFirstVolumeW", <<>>, "ok")
          /\ searchOpen' = searchOpen + 1
          /\ vi' = 1
          /\ pc' = "GetVolumePathNamesForVolumeNameW"
          /\ UNCHANGED <<result, cause>>
    /\ UNCHANGED <<volumes, output, callVars, names, ni, matched, volHandles, fileOpen,
                   callerOpen, opened>>

\* Line 153, get_volume_path_names (192-235), and the head of the for loop
\* (154).
GetVolumePathNamesForVolumeNameW ==
    /\ pc = "GetVolumePathNamesForVolumeNameW"
    /\ \/ /\ Log("GetVolumePathNamesForVolumeNameW", vi, "ERROR_GEN_FAILURE")
          /\ Return(Err(resolver, "VolumePathNames", LastOsError("ERROR_GEN_FAILURE")),
                    "GetVolumePathNamesForVolumeNameW")
          /\ UNCHANGED <<names, ni>>
       \/ LET list == OsVolumePathNames(vi) IN
          IF Len(list) > MAX_PATH
          THEN /\ Log("GetVolumePathNamesForVolumeNameW", vi, "ERROR_MORE_DATA")
               /\ Return(Err(resolver, "VolumePathNames", LastOsError("ERROR_MORE_DATA")),
                         "more data")
               /\ UNCHANGED <<names, ni>>
          ELSE LET volume_paths == list \o Zeros(MAX_PATH - Len(list))
                   volume_path_names == get_volume_path_names(resolver, volume_paths, Len(list))
               IN  /\ Log("GetVolumePathNamesForVolumeNameW", vi, "ok")
                   /\ names' = volume_path_names
                   /\ ni' = 1
                   /\ pc' = IF volume_path_names = <<>> THEN "FindNextVolumeW"
                            ELSE "ProbeCreateFileW"
                   /\ UNCHANGED <<result, cause>>
    /\ UNCHANGED <<volumes, output, callVars, vi, matched, handleVars, opened>>

\* The probe with a failed open taken as "not this one": the for loop goes
\* on with the next mount path instead of returning.
ProbeCreateFileW_continue ==
    /\ pc = "ProbeCreateFileW"
    /\ \/ /\ Log("CreateFileW", names[ni], "ERROR_GEN_FAILURE")
          /\ ni' = ni + 1
          /\ pc' = IF ni < Len(names) THEN "ProbeCreateFileW" ELSE "FindNextVolumeW"
          /\ UNCHANGED <<volHandles, result, cause>>
       \/ /\ Log("CreateFileW", names[ni], "ok")
          /\ volHandles' = volHandles + 1
          /\ pc' = "GetFileInformationByHandleEx"
          /\ UNCHANGED <<ni, result, cause>>
    /\ UNCHANGED <<volumes, output, callVars, vi, names, matched, searchOpen, fileOpen,
                   callerOpen, opened>>

\* Line 155: get_volume_serial_number_from_path (243) calling
\* get_volume_handle_from_path (265-294).
ProbeCreateFileW ==
    /\ pc = "ProbeCreateFileW"
    /\ \/ /\ Log("CreateFileW", names[ni], "ERROR_GEN_FAILURE")
          /\ Return(Err(resolver, "VolumeHandle", LastOsError("ERROR_GEN_FAILURE")),
                    "CreateFileW")
          /\ UNCHANGED volHandles
       \/ /\ Log("CreateFileW", names[ni], "ok")
          /\ volHandles' = volHandles + 1
          /\ pc' = "GetFileInformationByHandleEx"
          /\ UNCHANGED <<result, cause>>
    /\ UNCHANGED <<volumes, output, callVars, enumVars, searchOpen, fileOpen, callerOpen, opened>>

\* The for loop without its early return: the last matching mount path of
\* the volume wins.
GetFileInformationByHandleEx_last_wins ==
    /\ pc = "GetFileInformationByHandleEx"
    /\ \/ /\ Log("GetFileInformationByHandleEx", names[ni], "ERROR_GEN_FAILURE")
          /\ Return(Err(resolver, "FileInformationByHandle", LastOsError("ERROR_GEN_FAILURE")),
                    "GetFileInformationByHandleEx")
          /\ UNCHANGED <<ni, matched>>
       \/ LET volume_path_sn == volumes[VolumeOfMount(names[ni])].sn IN
          /\ Log("GetFileInformationByHandleEx", names[ni], "ok")
          /\ IF volume_path_sn = id.volume_serial_number
             THEN /\ matched' = names[Len(names)]
                  /\ pc' = "OpenVolume"
                  /\ UNCHANGED <<ni, result, cause>>
             ELSE /\ ni' = ni + 1
                  /\ pc' = IF ni < Len(names) THEN "ProbeCreateFileW" ELSE "FindNextVolumeW"
                  /\ UNCHANGED <<matched, result, cause>>
    /\ UNCHANGED <<volumes, output, callVars, vi, names, handleVars, opened>>

\* Lines 244-261, then 156-159 and the step of the for loop.
GetFileInformationByHandleEx ==
    /\ pc = "GetFileInformationByHandleEx"
    /\ \/ /\ Log("GetFileInformationByHandleEx", names[ni], "ERROR_GEN_FAILURE")
          /\ Return(Err(resolver, "FileInformationByHandle", LastOsError("ERROR_GEN_FAILURE")),
                    "GetFileInformationByHandleEx")
          /\ UNCHANGED <<ni, matched>>
       \/ LET volume_path_sn == volumes[VolumeOfMount(names[ni])].sn IN
          /\ Log("GetFileInformationByHandleEx", names[ni], "ok")
          /\ IF volume_path_sn = id.volume_serial_number
             THEN /\ matched' = names[ni]
                  /\ pc' = "OpenVolume"
                  /\ UNCHANGED <<ni, result, cause>>
             ELSE /\ ni' = ni + 1
                  /\ pc' = IF ni < Len(names) THEN "ProbeCreateFileW" ELSE "FindNextVolumeW"
                  /\ UNCHANGED <<matched, result, cause>>
    /\ UNCHANGED <<volumes, output, callVars, vi, names, handleVars, opened>>

\* Lines 161-187.
FindNextVolumeW ==
    /\ pc = "FindNextVolumeW"
    /\ \/ /\ Log("FindNextVolumeW", <<>>, "ERROR_GEN_FAILURE")
          /\ Return(Err(resolver, "FindVolume", LastOsError("ERROR_GEN_FAILURE")),
                    "FindNextVolumeW")
          /\ UNCHANGED <<vi, searchOpen>>
       \/ IF vi < Len(volumes)
          THEN /\ Log("FindNextVolumeW", <<>>, "ok")
               /\ vi' = vi + 1
               /\ pc' = "GetVolumePathNamesForVolumeNameW"
               /\ UNCHANGED <<searchOpen, result, cause>>
          ELSE \* ret == 0 and GetLastError() == ERROR_NO_MORE_FILES
               /\ oscalls' = oscalls \o << <<"FindNextVolumeW", <<>>, "ERROR_NO_MORE_FILES">>,
                                            <<"FindVolumeClose", <<>>, "ok">> >>
               /\ searchOpen' = searchOpen - 1
               /\ Return(Err(resolver, "FindVolume", IoNew("NotFound")), "exhausted")
               /\ UNCHANGED vi
    /\ UNCHANGED <<volumes, output, callVars, names, ni, matched, volHandles, fileOpen,
                   callerOpen, opened>>

(***************************************************************************)
(* The rest of file_handle_from_id (windows.rs 89-119, lib.rs 71-95).      *)
(***************************************************************************)
\* Line 99: get_volume_handle_from_path on the matched mount path.
OpenVolume ==
    /\ pc = "OpenVolume"
    /\ \/ /\ Log("CreateFileW", matched, "ERROR_GEN_FAILURE")
          /\ Return(Err(resolver, "VolumeHandle", LastOsError("ERROR_GEN_FAILURE")),
                    "CreateFileW")
          /\ UNCHANGED volHandles
       \/ /\ Log("CreateFileW", matched, "ok")
          /\ volHandles' = volHandles + 1
          /\ pc' = "OpenFileById"
          /\ UNCHANGED <<result, cause>>
    /\ UNCHANGED <<volumes, output, callVars, enumVars, searchOpen, fileOpen, callerOpen, opened>>

\* Whether the world can hold, on the matched volume, a file other than the
\* one the id was captured from that answers to the same id: the volume is
\* a second one reporting the serial number (a clone).
OtherFilePossible ==
    Cardinality({ v \in 1 .. Len(volumes) : volumes[v].sn = id.volume_serial_number }) >= 2

\* Lines 100-119.
OpenFileById ==
    /\ pc = "OpenFileById"
    /\ \/ /\ Log("OpenFileById", matched, "ERROR_ACCESS_DENIED")
          /\ Return(Err(resolver, "OpenFile", LastOsError("ERROR_ACCESS_DENIED")),
                    "OpenFileById")
          /\ UNCHANGED <<fileOpen, opened>>
       \/ /\ VolumeOfMount(matched) = home
          /\ Log("OpenFileById", matched, "ok")
          /\ \E p \in Paths : opened' = [who |-> "home", path |-> p]
          /\ fileOpen' = fileOpen + 1
          /\ pc' = "GetFinalPathNameByHandleW"
          /\ UNCHANGED <<result, cause>>
       \/ /\ VolumeOfMount(matched) # home
          /\ OtherFilePossible
          /\ Log("OpenFileById", matched, "ok")
          /\ \E p \in Paths : opened' = [who |-> "other", path |-> p]
          /\ fileOpen' = fileOpen + 1
          /\ pc' = "GetFinalPathNameByHandleW"
          /\ UNCHANGED <<result, cause>>
       \/ /\ VolumeOfMount(matched) # home
          /\ Log("OpenFileById", matched, "ERROR_INVALID_PARAMETER")
          /\ Return(Err(resolver, "OpenFile", LastOsError("ERROR_INVALID_PARAMETER")),
                    "no such file")
          /\ UNCHANGED <<fileOpen, opened>>
    /\ UNCHANGED <<volumes, output, callVars, enumVars, searchOpen, volHandles, callerOpen>>

\* path_from_handle (25-66) and the return of its caller: path_from_id
\* drops the fs::File it opened (line 16), path_from_file borrows the
\* caller's.
GetFinalPathNameByHandleW ==
    /\ pc = "GetFinalPathNameByHandleW"
    /\ \E os \in {OsFinalPathNameFailed, OsFinalPathName(opened.path)} :
          /\ Log("GetFinalPathNameByHandleW", <<>>,
                 IF os = OsFinalPathNameFailed THEN "ERROR_GEN_FAILURE" ELSE "ok")
          /\ Return(path_from_handle(resolver, os.buf, os.size),
                    path_from_handle_cause(os.buf, os.size))
    /\ fileOpen' = IF entry = "path_from_id" THEN fileOpen - 1 ELSE fileOpen
    /\ UNCHANGED <<volumes, output, callVars, enumVars, searchOpen, volHandles, callerOpen, opened>>

(***************************************************************************)
(* unix.rs.  Text is a sequence of one-character strings; InvalidByte      *)
(* stands for a byte that no UTF-8 text holds.                             *)
(***************************************************************************)
InvalidByte == "<0xFF>"

\* String::from_utf8(output.stdout) (line 28)
from_utf8_ok(bytes) == \A i \in 1 .. Len(bytes) : bytes[i] # InvalidByte

\* str::find of a character: its first position, 0 when absent
RECURSIVE FindChar(_, _, _)
FindChar(s, c, from) ==
    IF from > Len(s) THEN 0
    ELSE IF s[from] = c THEN from
    ELSE FindChar(s, c, from + 1)

\* output.split("\n") (line 33)
RECURSIVE split_lines(_)
split_lines(s) ==
    LET k == FindChar(s, "\n", 1) IN
    IF k = 0 THEN <<s>>
    ELSE <<SubSeq(s, 1, k - 1)>> \o split_lines(SubSeq(s, k + 1, Len(s)))

\* char::is_whitespace holds of these among the characters the model draws
Whitespace == {" ", "\t", "\n", "\r", "\f"}

RECURSIVE trim_start_matches(_, _)
trim_start_matches(s, cs) ==
    IF s # <<>> /\ s[1] \in cs THEN trim_start_matches(Tail(s), cs) ELSE s

RECURSIVE trim_end_matches(_, _)
trim_end_matches(s, cs) ==
    IF s # <<>> /\ s[Len(s)] \in cs
    THEN trim_end_matches(SubSeq(s, 1, Len(s) - 1), cs)
    ELSE s

\* str::trim
trim(s) == trim_end_matches(trim_start_matches(s, Whitespace), Whitespace)

\* str::trim_matches('"')
trim_quotes(s) == trim_end_matches(trim_start_matches(s, {"\""}), {"\""})

key_directory == <<"d", "i", "r", "e", "c", "t", "o", "r", "y">>

key_file == <<"f", "i", "l", "e">>

\* The for loop with rsplit_once in place of split_once: the line is cut at
\* its last ':'.
RECURSIVE get_path_from_id_lines_rsplit(_)
get_path_from_id_lines_rsplit(lines) ==
    IF lines = <<>> THEN Err("unix", "NoFileInfo", NoIo)
    ELSE LET line == Head(lines)
             at == { i \in 1 .. Len(line) : line[i] = ":" }
         IN  IF at = {} THEN get_path_from_id_lines_rsplit(Tail(lines))
             ELSE LET k == CHOOSE i \in at : \A j \in at : j <= i
                      key == trim(SubSeq(line, 1, k - 1))
                      value == SubSeq(line, k + 1, Len(line))
                  IN  IF key = key_directory \/ key = key_file
                      THEN Ok(trim_quotes(trim(value)))
                      ELSE get_path_from_id_lines_rsplit(Tail(lines))

\* The for loop of get_path_from_id (lines 33-45) over the lines left.
RECURSIVE get_path_from_id_lines(_)
get_path_from_id_lines(lines) ==
    IF lines = <<>> THEN Err("unix", "NoFileInfo", NoIo)
    ELSE LET line == Head(lines)
             k == FindChar(line, ":", 1)
         IN  IF k = 0 THEN get_path_from_id_lines(Tail(lines))
             ELSE LET key == trim(SubSeq(line, 1, k - 1))
                      value == SubSeq(line, k + 1, Len(line))
                  IN  IF key = key_directory \/ key = key_file
                      THEN Ok(trim_quotes(trim(value)))
                      ELSE get_path_from_id_lines(Tail(lines))

\* get_path_from_id from the utility's standard output on (lines 28-45).
get_path_from_id(stdout) ==
    IF ~from_utf8_ok(stdout)
    THEN Err("unix", "Decode", NoIo)
    ELSE get_path_from_id_lines(split_lines(stdout))

\* What the utility writes for /.vol/<device>/<inode>: for a live file or
\* directory its path under the key, followed by further lines; for an
\* identifier that names nothing, no line on standard output.
UnixPath == <<"/", "a">>

LiveStdouts ==
    { key_file \o <<":", " ", "\"">> \o UnixPath \o <<"\"", "\n", "t", "y", "p", "e", ":", " ", "\"", "\"", "\n">>,
      key_directory \o <<":", " ", "\"">> \o UnixPath \o <<"\"", "\n">>,
      key_file \o <<":", " ", "\"">> \o UnixPath \o <<InvalidByte, "\"", "\n">> }

StaleStdouts == { <<>> }

\* Standard output as the parsing sees it: the utility is a separate program
\* and get_path_from_id accepts whatever bytes it wrote.  Every text of up
\* to MaxTokens of these pieces, and the texts above.
MaxTokens == 5

Tokens == { key_file, key_directory, <<"x">>, <<":">>, <<" ">>, <<"\"">>, <<"\n">> }

Texts == { Flatten(ts) : ts \in UNION { [1 .. n -> Tokens] : n \in 0 .. MaxTokens } }

\* Longer outputs: keys padded with blanks, CR LF line ends, a quoted value
\* holding a colon, a key that only starts with file, two keyed lines.
LongStdouts ==
    { <<" ">> \o key_file \o <<" ", ":", " ", "\"", "x", ":", "x", "\"", " ", "\r", "\n">>
          \o key_directory \o <<":", "x", "\n">>,
      <<"x", "\n">> \o key_file \o <<":", "x", "\n">> \o key_directory \o <<":", "\"", "x", "\"">>,
      key_file \o <<"s", ":", "x", "\n">> \o key_directory \o <<":", "\"", "\"", "x", " ", "\"", "\n">> }

AnyStdouts == Texts \cup LongStdouts \cup LiveStdouts \cup StaleStdouts

\* unix.rs path_from_id (7-15).
unix_path_from_id ==
    /\ pc = "idle"
    /\ \E in \in {<<Inode, 0>>, <<Inode, 1>>} \cup OtherInputs({"LowRes", "HighRes"}) :
        /\ entry' = "path_from_id"
        /\ resolver' = "unix"
        /\ id' = in[1]
        /\ home' = in[2]
        /\ IF unix_path_from_id_match(in[1]) = "resolve"
           THEN /\ pc' = "Command"
                /\ UNCHANGED <<result, cause>>
           ELSE Return(Err("unix", "InvalidFileId", NoIo), "InvalidFileId")
    /\ UNCHANGED <<volumes, output, enumVars, handleVars, opened, oscalls>>

\* Command::output (lines 19-26) and the rest of get_path_from_id, for a
\* utility that writes one of the texts of outs.
sh_getfileinfo(outs) ==
    /\ pc = "Command"
    /\ \/ /\ Log("Command::output", <<"getfileinfo /.vol/", id.device_id, "/", id.inode_number>>,
                 "ERROR_GEN_FAILURE")
          /\ Return(Err("unix", "Command", LastOsError("ERROR_GEN_FAILURE")), "Command::output")
          /\ UNCHANGED output
       \/ \E stdout \in outs :
             LET res == get_path_from_id(stdout) IN
             /\ Log("Command::output", <<"getfileinfo /.vol/", id.device_id, "/", id.inode_number>>,
                    "ok")
             /\ output' = stdout
             /\ Return(res, IF res.tag = "Ok" THEN "ok" ELSE res.variant)
    /\ UNCHANGED <<volumes, callVars, enumVars, handleVars, opened>>

Command == sh_getfileinfo(IF home = 0 THEN StaleStdouts ELSE LiveStdouts)

Next ==
    \/ unix_path_from_id
    \/ Command
    \/ path_from_id
    \/ lib_path_from_id
    \/ path_from_file
    \/ FindFirstVolumeW
    \/ GetVolumePathNamesForVolumeNameW
    \/ ProbeCreateFileW
    \/ GetFileInformationByHandleEx
    \/ FindNextVolumeW
    \/ OpenVolume
    \/ OpenFileById
    \/ GetFinalPathNameByHandleW

Spec == Init /\ [][Next]_vars

(***************************************************************************)
(* The Unix resolver on its own, over every text the utility may write.    *)
(* The volumes play no part in it and are held to one world.               *)
(***************************************************************************)
CommandAnyOutput == sh_getfileinfo(AnyStdouts)

InitParse == Init /\ volumes = <<[sn |-> 1, nmounts |-> 0]>>

NextParse ==
    \/ unix_path_from_id
    \/ CommandAnyOutput

SpecParse == InitParse /\ [][NextParse]_vars

(***************************************************************************)
(* Vocabulary of the properties.                                           *)
(***************************************************************************)
Done == pc = "done"

Windows == resolver \in {"windows", "lib"}

\* The invocation resolves an identifier of the resolver's own variant.
Resolving ==
    /\ entry = "path_from_id"
    /\ \/ Windows /\ id.kind = "HighRes"
       \/ resolver = "unix" /\ id.kind = "Inode"

\* Exits on the failure of an OS call itself, as opposed to an answer.
OsCallFailures ==
    { "FindFirstVolumeW", "GetVolumePathNamesForVolumeNameW", "more data", "CreateFileW",
      "GetFileInformationByHandleEx", "FindNextVolumeW", "OpenFileById",
      "GetFinalPathNameByHandleW", "Command::output" }

\* The mount paths of the world in enumeration order: volume by volume,
\* and within a volume in the order the OS lists them.
RECURSIVE MountsFrom(_)
MountsFrom(v) ==
    IF v > Len(volumes) THEN <<>>
    ELSE [j \in 1 .. volumes[v].nmounts |-> [vol |-> v, name |-> MountName(v, j)]]
             \o MountsFrom(v + 1)

AllMounts == MountsFrom(1)

\* The mount paths whose serial number the invocation has asked for.
RECURSIVE ProbedIn(_)
ProbedIn(log) ==
    IF log = <<>> THEN <<>>
    ELSE (IF Head(log)[1] = "GetFileInformationByHandleEx" THEN <<CStr(Head(log)[2])>> ELSE <<>>)
             \o ProbedIn(Tail(log))

Probed == ProbedIn(oscalls)

\* The first volume, in enumeration order, that has a mount path and
\* reports serial number sn; 0 when there is none.
FirstVolumeWithSerial(sn) ==
    LET hits == { v \in 1 .. Len(volumes) : volumes[v].nmounts > 0 /\ volumes[v].sn = sn } IN
    IF hits = {} THEN 0 ELSE CHOOSE v \in hits : \A w \in hits : v <= w

\* What the final-path step yields for a file whose path is p when the
\* query itself does not fail.
FinalPathOf(p) ==
    IF Len(p) >= MAX_PATH THEN Err("windows", "FinalPathName", CapacityIo(Len(p) + 1))
    ELSE IF ~ValidUtf16(p) THEN Err("windows", "FinalPathName", IoNew("InvalidData"))
    ELSE Ok(DecodeUtf16(p))

ForeignVariant ==
    /\ entry = "path_from_id"
    /\ \/ Windows /\ id.kind = "Inode"
       \/ resolver = "unix" /\ id.kind \in {"HighRes", "LowRes"}

\* C2: a resolver given an identifier of the other platform's variant
\* returns the InvalidFileId error and makes no OS call.
C2_VariantRejection ==
    (Done /\ ForeignVariant)
        => /\ result.tag = "Err"
           /\ result.variant = "InvalidFileId"
           /\ oscalls = <<>>

(***************************************************************************)
(* C3.                                                                     *)
(***************************************************************************)
\* C3: the Windows resolver given a LowRes identifier returns an error of
\* an "unsupported" kind of its own: no crash, no path, and not the error
\* of a foreign variant or of a failed OS call.
C3_LowResIsAnError ==
    (Done /\ resolver = "windows" /\ entry = "path_from_id" /\ id.kind = "LowRes")
        => /\ result.tag = "Err"
           /\ result.variant \notin
                 { "InvalidFileId", "VolumeHandle", "FileInformationByHandle", "FindVolume",
                   "VolumePathNames", "OpenFile", "FinalPathName" }

(***************************************************************************)
(* C4.                                                                     *)
(***************************************************************************)
\* C4: when path_from_id returns, every handle it got from opening a mount
\* path and the handle it got from open-by-id is closed again.
C4_FileAndVolumeHandlesClosed ==
    (Done /\ entry = "path_from_id") => (volHandles = 0 /\ fileOpen = 0)

(***************************************************************************)
(* C5.                                                                     *)
(***************************************************************************)
\* C5: when the enumeration has returned, on whichever exit, the search
\* handle FindFirstVolumeW gave is closed.
C5_SearchHandleClosed ==
    pc \in {"OpenVolume", "OpenFileById", "GetFinalPathNameByHandleW", "done"}
        => searchOpen = 0

(***************************************************************************)
(* C6.                                                                     *)
(***************************************************************************)
NotFoundClass(res) ==
    res.tag = "Err" /\ (res.variant = "NoFileInfo" \/ res.io.kind = "NotFound")

\* C6: resolving the identifier of a file that has been deleted returns an
\* error of the not-found class and never a path.  (Checked with no OS call
\* failing for another reason, and with no other file answering to the
\* identifier: less than the statement asks for.)
C6_StaleIdIsNotFound ==
    (Done /\ Resolving /\ resolver # "lib" /\ home = 0 /\ cause \notin OsCallFailures /\ opened.who = "none")
        => NotFoundClass(result)

(***************************************************************************)
(* C7.                                                                     *)
(***************************************************************************)
\* C7: a reported length above the buffer's capacity yields an error that
\* carries both sizes and whose kind is neither that of a failed query nor
\* that of a failed decode; an Ok path has exactly the reported length.
C7_CapacityIsItsOwnError ==
    /\ (Done /\ cause = "capacity")
          => /\ result.tag = "Err"
             /\ result.io.required = Len(opened.path) + 1
             /\ result.io.available = MAX_PATH
             /\ result.variant # path_from_handle(resolver, Zeros(MAX_PATH), 0).variant
             /\ result.variant # path_from_handle(resolver, <<55357>> \o Zeros(MAX_PATH - 1), 1).variant
    /\ (Done /\ Windows /\ result.tag = "Ok")
          => /\ Len(EncodeUtf16(result.path)) = OsFinalPathName(opened.path).size
             /\ Len(EncodeUtf16(result.path)) > 0
             /\ Len(EncodeUtf16(result.path)) <= MAX_PATH
             /\ EncodeUtf16(result.path) = opened.path

(***************************************************************************)
(* C8.                                                                     *)
(***************************************************************************)
OnlyTheFinalPathQuery ==
    (Done /\ entry = "path_from_file")
        => /\ [k \in 1 .. Len(oscalls) |-> oscalls[k][1]] = <<"GetFinalPathNameByHandleW">>
           /\ callerOpen
           /\ searchOpen = 0 /\ volHandles = 0 /\ fileOpen = 0

\* C8 as stated: path_from_file makes the final-path query only and leaves
\* the caller's handle open, and path_from_id on the identifier of file F
\* returns what path_from_file returns on a handle to F.  (Checked with
\* every OS call succeeding and F on a volume that has a mount path.)
C8_SameResultAsPathFromId ==
    /\ OnlyTheFinalPathQuery
    /\ (/\ Done /\ resolver = "windows" /\ entry = "path_from_id" /\ id.kind = "HighRes"
        /\ home > 0 /\ volumes[home].nmounts > 0 /\ cause \notin OsCallFailures)
          => /\ opened.who = "home"
             /\ result = FinalPathOf(opened.path)

\* C8 amended: path_from_file makes the final-path query only and leaves
\* the caller's handle open; and whenever path_from_id has obtained a
\* handle to F by its identifier, it returns what path_from_file returns on
\* a handle to F: the outcome of the final-path step on F.
C8_SameFinalStepOnceOpened ==
    /\ OnlyTheFinalPathQuery
    /\ (Done /\ resolver = "windows" /\ opened.who = "home")
          => result = IF cause = "GetFinalPathNameByHandleW"
                      THEN Err("windows", "FinalPathName", LastOsError("ERROR_GEN_FAILURE"))
                      ELSE FinalPathOf(opened.path)

\* path_from_file has returned the path of the longest name that fits.
C8_Witness ==
    /\ Done /\ entry = "path_from_file" /\ callerOpen
    /\ result.tag = "Ok" /\ Len(result.path) = MAX_PATH - 1

(***************************************************************************)
(* C9.                                                                     *)
(***************************************************************************)
\* C9: when the enumeration runs out of volumes without a match the result
\* is a not-found error, and its variant is not the one that reports a
\* failure of the enumeration call itself.
C9_ExhaustionIsItsOwnError ==
    (Done /\ cause = "exhausted")
        => /\ result.tag = "Err"
           /\ result.io.kind = "NotFound"
           /\ result.variant # Err(resolver, "FindVolume", LastOsError("ERROR_GEN_FAILURE")).variant

(***************************************************************************)
(* C10.                                                                    *)
(***************************************************************************)
\* C10: the mount paths probed are, in order, the mount paths of the world
\* in enumeration order (volumes without one contribute none); none before
\* the last probed reports the target serial number; the enumeration
\* returns the probed path that does, and probes nothing after it; and it
\* reports exhaustion only when it has probed them all.
C10_FirstMatchWins ==
    (Windows /\ entry = "path_from_id" /\ id.kind = "HighRes")
        => LET target == id.volume_serial_number
               n == Len(Probed)
           IN  /\ n <= Len(AllMounts)
               /\ \A k \in 1 .. n : Probed[k] = AllMounts[k].name
               /\ \A k \in 1 .. n - 1 : volumes[AllMounts[k].vol].sn # target
               /\ matched # <<>>
                     => /\ n >= 1
                        /\ CStr(matched) = AllMounts[n].name
                        /\ volumes[AllMounts[n].vol].sn = target
               /\ (Done /\ cause = "exhausted")
                     => /\ n = Len(AllMounts)
                        /\ \A k \in 1 .. n : volumes[AllMounts[k].vol].sn # target
               /\ (matched = <<>> /\ n >= 1 /\ pc \notin {"done", "GetFileInformationByHandleEx"})
                     => volumes[AllMounts[n].vol].sn # target

\* The second volume's first mount path won, after both mount paths of the
\* first volume were probed.
C10_Witness ==
    /\ Windows /\ matched # <<>>
    /\ Len(Probed) = 3
    /\ VolumeOfMount(matched) = 2
    /\ volumes[2].nmounts = 2


(***************************************************************************)
(* C11.  The claim read on the text itself: positions of line breaks and   *)
(* of colons, not the loop of the code.                                    *)
(***************************************************************************)
\* s without the characters of cs at its two ends
Strip(s, cs) ==
    LET keep == { i \in 1 .. Len(s) : s[i] \notin cs } IN
    IF keep = {} THEN <<>>
    ELSE SubSeq(s, CHOOSE i \in keep : \A j \in keep : i <= j,
                   CHOOSE i \in keep : \A j \in keep : j <= i)

LineBreaks(s) == { i \in 1 .. Len(s) : s[i] = "\n" }

LineCount(s) == Cardinality(LineBreaks(s)) + 1

\* position of the k-th line break; 0 before the text, Len + 1 after it
LineBreak(s, k) ==
    IF k = 0 THEN 0
    ELSE IF k > Cardinality(LineBreaks(s)) THEN Len(s) + 1
    ELSE CHOOSE i \in LineBreaks(s) : Cardinality({ j \in LineBreaks(s) : j < i }) = k - 1

LineAt(s, k) == SubSeq(s, LineBreak(s, k - 1) + 1, LineBreak(s, k) - 1)

Colons(l) == { i \in 1 .. Len(l) : l[i] = ":" }

FirstColon(l) == CHOOSE i \in Colons(l) : \A j \in Colons(l) : i <= j

Blank == { " ", "\t", "\n", "\r", "\f" }

\* the line has a ':' and what stands before the first one is, blanks at
\* its ends apart, exactly directory or file
Keyed(l) ==
    /\ Colons(l) # {}
    /\ Strip(SubSeq(l, 1, FirstColon(l) - 1), Blank)
           \in { <<"d", "i", "r", "e", "c", "t", "o", "r", "y">>, <<"f", "i", "l", "e">> }

\* what follows the first ':', blanks and then double quotes at its ends
\* removed
ValueOf(l) == Strip(Strip(SubSeq(l, FirstColon(l) + 1, Len(l)), Blank), {"\""})

KeyedLines(s) == { k \in 1 .. LineCount(s) : Keyed(LineAt(s, k)) }

\* The utility ran and its output is valid text.
ParsedText ==
    /\ Done /\ resolver = "unix" /\ oscalls # <<>> /\ cause # "Command::output"
    /\ \A i \in 1 .. Len(output) : output[i] # InvalidByte

\* C11: for every output of the utility that is valid text, the result is
\* Ok with the value of the first line whose trimmed key is directory or
\* file (the text after the line's first ':', later colons kept, blanks and
\* then double quotes removed at its ends); when no line has such a key,
\* the empty output included, the result is NoFileInfo and not Ok.
C11_UnixOutputParsing ==
    ParsedText =>
        IF KeyedLines(output) = {}
        THEN result = Err("unix", "NoFileInfo", NoIo)
        ELSE LET first == CHOOSE k \in KeyedLines(output) : \A j \in KeyedLines(output) : k <= j
             IN  result = Ok(ValueOf(LineAt(output, first)))

\* Two keyed lines that hold different values; the first has blanks around
\* its key, and its value is quoted and holds a colon, which the path
\* returned keeps.
C11_Witness ==
    /\ ParsedText
    /\ \E j, k \in KeyedLines(output) :
          /\ j < k
          /\ ValueOf(LineAt(output, j)) # ValueOf(LineAt(output, k))
          /\ LineAt(output, j)[1] = " "
    /\ result.tag = "Ok"
    /\ \E i \in 1 .. Len(result.path) : result.path[i] = ":"


(***************************************************************************)
(* C12.                                                                    *)
(***************************************************************************)
\* The OS calls that are steps of the resolution (FindVolumeClose is not).
ResolutionCalls ==
    { "FindFirstVolumeW", "FindNextVolumeW", "GetVolumePathNamesForVolumeNameW", "CreateFileW",
      "GetFileInformationByHandleEx", "OpenFileById", "GetFinalPathNameByHandleW" }

\* The error variant the claim pairs with each call.
VariantNaming(call) ==
    CASE call \in {"FindFirstVolumeW", "FindNextVolumeW"} -> "FindVolume"
      [] call = "GetVolumePathNamesForVolumeNameW" -> "VolumePathNames"
      [] call = "CreateFileW" -> "VolumeHandle"
      [] call = "GetFileInformationByHandleEx" -> "FileInformationByHandle"
      [] call = "OpenFileById" -> "OpenFile"
      [] call = "GetFinalPathNameByHandleW" -> "FinalPathName"

\* C12: in the Windows resolver, a call the OS failed is the last step of
\* the resolution: the invocation has returned, with an error whose
\* variant (windows.rs) names that call, and no call of the resolution
\* follows it in the log, neither the same call again nor the probe of a
\* later mount path or volume; and open-by-id appears in the log only
\* right after the successful open of a mount path that was probed before
\* and whose volume reports the identifier's serial number.
C12_FailFastTaggedNoRetry ==
    Windows =>
        /\ \A k \in 1 .. Len(oscalls) :
              oscalls[k][3] # "ok" =>
                 /\ Done
                 /\ result.tag = "Err"
                 /\ (resolver = "windows" => result.variant = VariantNaming(oscalls[k][1]))
                 /\ \A j \in k + 1 .. Len(oscalls) : oscalls[j][1] \notin ResolutionCalls
        /\ \A k \in 1 .. Len(oscalls) :
              oscalls[k][1] = "OpenFileById" =>
                 /\ k >= 3
                 /\ oscalls[k - 1] = <<"CreateFileW", oscalls[k][2], "ok">>
                 /\ \E j \in 1 .. k - 2 :
                       oscalls[j] = <<"GetFileInformationByHandleEx", oscalls[k][2], "ok">>
                 /\ volumes[VolumeOfMount(oscalls[k][2])].sn = id.volume_serial_number

\* The probe of a mount path of the first volume failed, the second volume
\* has a mount path and reports the serial number looked for, and the
\* invocation returned the probe's error without looking at it.
C12_Witness ==
    /\ Done /\ resolver = "windows" /\ oscalls # <<>>
    /\ LET last == oscalls[Len(oscalls)] IN
        /\ last[1] \in {"CreateFileW", "GetFileInformationByHandleEx"}
        /\ last[3] # "ok"
        /\ VolumeOfMount(last[2]) = 1
        /\ result.variant = VariantNaming(last[1])
    /\ matched = <<>>
    /\ Len(volumes) = 2
    /\ volumes[1].sn # id.volume_serial_number
    /\ volumes[2].sn = id.volume_serial_number
    /\ volumes[2].nmounts > 0


(***************************************************************************)
(* C13.                                                                    *)
(***************************************************************************)
\* The calls are blocking and the invocation is the only thing running:
\* a step that can be taken is taken.
FairSpec == Spec /\ WF_vars(Next)

\* The arguments of two different entries of the log for the same call
\* differ.
AtMostOnce(call) ==
    \A i, j \in 1 .. Len(oscalls) :
        (i # j /\ oscalls[i][1] = call /\ oscalls[j][1] = call) => oscalls[i][2] # oscalls[j][2]

\* FindFirstVolumeW; per volume the listing and a FindNextVolumeW; per mount
\* path an open and a serial-number query; then the open of the matched
\* path, open-by-id and the final-path query.
CallBound == 1 + 2 * Len(volumes) + 2 * Len(AllMounts) + 3

\* The enumeration has made at most CallBound OS calls, has listed no volume
\* twice and probed no mount path twice, and is not stuck.
EnumerationBounded ==
    /\ Len(oscalls) <= CallBound
    /\ AtMostOnce("GetVolumePathNamesForVolumeNameW")
    /\ AtMostOnce("GetFileInformationByHandleEx")
    /\ Cardinality({ k \in 1 .. Len(oscalls) : oscalls[k][1] = "FindNextVolumeW" }) <= Len(volumes)
    /\ Done \/ ENABLED Next

\* C13 as stated: whatever the volumes, every call to path_from_id comes
\* back with Ok or with an error, after a bounded number of OS calls that
\* visit each volume and probe each mount path at most once.
C13_EveryCallReturns ==
    (Windows /\ entry = "path_from_id")
        => /\ EnumerationBounded
           /\ Done => result.tag \in {"Ok", "Err"}

\* What holds: the calls that reach the enumeration (HighRes identifiers).
C13_ResolvingCallsReturn ==
    (Windows /\ Resolving)
        => /\ EnumerationBounded
           /\ Done => result.tag \in {"Ok", "Err"}

\* ... and every invocation ends.
C13_EveryInvocationEnds == <>Done

\* A resolving call returned Ok past a volume without a mount path, on a
\* volume that has two.
C13_ResolvingWitness ==
    /\ Done /\ Windows /\ Resolving /\ result.tag = "Ok"
    /\ Len(volumes) = 2
    /\ volumes[1].nmounts = 0
    /\ volumes[2].nmounts = 2
    /\ Len(Probed) = 1

=============================================================================
